---- MODULE Spec2Model ----
(***************************************************************************)
(* Fair vehicle selector: the selection core (update_usage,                *)
(* select_vehicles_auto) of vehicle_management.py and                      *)
(* fair_vehicle_selector_v1.py, the handlers of the two match selection    *)
(* screens that call it, and the handlers of the roster screens.           *)
(*                                                                         *)
(* Python lists are sequences, dicts are functions whose DOMAIN is the     *)
(* set of keys; vehicle_groups, whose iteration order the code depends on, *)
(* is a sequence of entries in insertion order.  A usage ratio used/present*)
(* is kept as the pair <<used, present>> and compared by cross             *)
(* multiplication, which agrees with the float comparison of the code for  *)
(* the counters reached here.                                              *)
(***************************************************************************)
EXTENDS Integers, Sequences, FiniteSets, TLC

VARIABLES players, vehicles, vehicle_groups, history, usage, app, last

vars == <<players, vehicles, vehicle_groups, history, usage, app, last>>

----------------------------------------------------------------------------
(* Bounds *)

Names == {"A", "B", "C"}

MaxCount == 2

MaxNeeded == 3

MaxGroups == 2

MaxEvents == 2

MaxMatches == 8

----------------------------------------------------------------------------
(* Lists and dicts *)

Range(s) == {s[i] : i \in 1..Len(s)}

NoDup(s) == \A i, j \in 1..Len(s) : s[i] = s[j] => i = j

ListsOver(S) == {s \in UNION {[1..n -> S] : n \in 0..Cardinality(S)} : NoDup(s)}

NewEntry == [used |-> 0, present |-> 0]

EmptyUsage == [n \in {} |-> NewEntry]

\* usage.get(p, {"used":0,"present":0})
usage_get(u, p) == IF p \in DOMAIN u THEN u[p] ELSE NewEntry

\* if p not in usage: usage[p] = {"used":0,"present":0}
setdefault(u, p) == IF p \in DOMAIN u THEN u ELSE u @@ (p :> NewEntry)

\* Python's list.index: the position of the first occurrence, from 0
index(vehicle_set, p) ==
    (CHOOSE i \in 1..Len(vehicle_set) :
        /\ vehicle_set[i] = p
        /\ \A j \in 1..(i - 1) : vehicle_set[j] # p) - 1

\* Python's list.remove: drops the first occurrence
RECURSIVE remove(_, _)
remove(s, x) ==
    IF s = <<>> THEN <<>>
    ELSE IF Head(s) = x THEN Tail(s)
    ELSE <<Head(s)>> \o remove(Tail(s), x)

----------------------------------------------------------------------------
(* update_usage / update_usage_counts *)

\* present credited to the eligible players that were not selected
update_usage_unpicked(selected_players, eligible_players, u) ==
    LET RECURSIVE used(_, _), present(_, _)
        used(sel, v) ==
            IF sel = <<>> THEN v
            ELSE used(Tail(sel), [setdefault(v, Head(sel)) EXCEPT ![Head(sel)].used = @ + 1])
        present(el, v) ==
            IF el = <<>> THEN v
            ELSE present(Tail(el),
                         IF Head(el) \in Range(selected_players) THEN setdefault(v, Head(el))
                         ELSE [setdefault(v, Head(el)) EXCEPT ![Head(el)].present = @ + 1])
    IN present(eligible_players, used(selected_players, u))

RECURSIVE credit_used(_, _)
credit_used(selected_players, u) ==
    IF selected_players = <<>> THEN u
    ELSE LET p == Head(selected_players)
         IN credit_used(Tail(selected_players),
                        [setdefault(u, p) EXCEPT ![p].used = @ + 1])

\* present credited to every driver that has an entry, eligible or not
credit_present_known(eligible_players, u) ==
    [d \in DOMAIN u \cup Range(eligible_players) |->
        [used |-> usage_get(u, d).used, present |-> usage_get(u, d).present + 1]]

RECURSIVE credit_present(_, _)
credit_present(eligible_players, u) ==
    IF eligible_players = <<>> THEN u
    ELSE LET p == Head(eligible_players)
         IN credit_present(Tail(eligible_players),
                           [setdefault(u, p) EXCEPT ![p].present = @ + 1])

\* present credited to the selected players alone
update_usage_pick_only(selected_players, eligible_players, u) ==
    credit_present(selected_players, credit_used(selected_players, u))

\* the counters rebuilt from this call alone, earlier entries dropped
update_usage_rebuilt(selected_players, eligible_players, u) ==
    credit_present(eligible_players, credit_used(selected_players, EmptyUsage))

update_usage(selected_players, eligible_players, u) ==
    credit_present(eligible_players, credit_used(selected_players, u))

----------------------------------------------------------------------------
(* select_vehicles_auto *)

\* a driver never counted present ranked by the used counter
usage_ratio_by_used(u, p) ==
    LET e == usage_get(u, p)
    IN IF e.present > 0 THEN <<e.used, e.present>> ELSE <<e.used, 1>>

\* u["used"]/u["present"] if u["present"]>0 else 0, as <<numerator, denominator>>
usage_ratio(u, p) ==
    LET e == usage_get(u, p)
    IN IF e.present > 0 THEN <<e.used, e.present>> ELSE <<0, 1>>

RatioLess(a, b) == a[1] * b[2] < b[1] * a[2]

RatioEq(a, b) == a[1] * b[2] = b[1] * a[2]

\* the sort key without its second component
KeyLessRatioOnly(u, vehicle_set, p, q) ==
    RatioLess(usage_ratio(u, p), usage_ratio(u, q))

\* the sort key (usage_ratio(p), vehicle_set.index(p)), compared as tuples
KeyLess(u, vehicle_set, p, q) ==
    \/ RatioLess(usage_ratio(u, p), usage_ratio(u, q))
    \/ /\ RatioEq(usage_ratio(u, p), usage_ratio(u, q))
       /\ index(vehicle_set, p) < index(vehicle_set, q)

\* x placed before the first element whose key is greater (stable)
RECURSIVE insert_sorted(_, _, _, _)
insert_sorted(s, x, u, vehicle_set) ==
    IF s = <<>> THEN <<x>>
    ELSE IF KeyLess(u, vehicle_set, x, Head(s)) THEN <<x>> \o s
    ELSE <<Head(s)>> \o insert_sorted(Tail(s), x, u, vehicle_set)

\* the eligible list left in the order of the attendee list
sorted_as_listed(eligible, u, vehicle_set) == eligible

\* sorted(eligible, key=lambda p: (usage_ratio(p), vehicle_set.index(p)))
RECURSIVE sorted(_, _, _)
sorted(eligible, u, vehicle_set) ==
    IF eligible = <<>> THEN <<>>
    ELSE insert_sorted(sorted(SubSeq(eligible, 1, Len(eligible) - 1), u, vehicle_set),
                       eligible[Len(eligible)], u, vehicle_set)

\* for members in vehicle_groups.values(): if pick in members: ... break
\* the position of the first entry listing pick, 0 when none does (the else branch)
first_group(groups, pick) ==
    IF \E i \in 1..Len(groups) : pick \in groups[i].members
    THEN CHOOSE i \in 1..Len(groups) :
            /\ pick \in groups[i].members
            /\ \A j \in 1..(i - 1) : pick \notin groups[j].members
    ELSE 0

\* the pick itself left eligible when a group lists it
exclude_keep_pick(eligible, groups, pick) ==
    LET g == first_group(groups, pick)
    IN IF g > 0
       THEN SelectSeq(eligible, LAMBDA e : e = pick \/ e \notin groups[g].members)
       ELSE remove(eligible, pick)

\* eligible after the pick: the first group listing it is dropped whole
exclude(eligible, groups, pick) ==
    LET g == first_group(groups, pick)
    IN IF g > 0
       THEN SelectSeq(eligible, LAMBDA e : e \notin groups[g].members)
       ELSE remove(eligible, pick)

\* every roster driver eligible, attending or not
eligible_whole_roster(vehicle_set, players_today) == vehicle_set

\* eligible = [v for v in players_today if v in vehicle_set]
eligible_of(vehicle_set, players_today) ==
    SelectSeq(players_today, LAMBDA v : v \in Range(vehicle_set))

\* the for loop: k rounds left
RECURSIVE select_loop(_, _, _, _, _, _, _)
select_loop(k, eligible, selected, u, vehicle_set, groups, rounds) ==
    IF k <= 0 \/ eligible = <<>>
    THEN [selected |-> selected, usage |-> u, eligible |-> eligible, rounds |-> rounds]
    ELSE LET ordered == sorted(eligible, u, vehicle_set)
             pick == ordered[1]
             u2 == update_usage(<<pick>>, eligible, u)
             e2 == exclude(eligible, groups, pick)
         IN select_loop(k - 1, e2, Append(selected, pick), u2, vehicle_set, groups,
                        Append(rounds, [eligible |-> eligible, before |-> u, pick |-> pick,
                                        usage |-> u2, remaining |-> e2]))

\* every attendee credited as present before the loop
select_vehicles_auto_attendees(vehicle_set, players_today, num_needed, u, groups) ==
    select_loop(num_needed, eligible_of(vehicle_set, players_today), <<>>,
                credit_present(players_today, u), vehicle_set, groups, <<>>)

\* one round too many
select_vehicles_auto_extra(vehicle_set, players_today, num_needed, u, groups) ==
    select_loop(num_needed + 1, eligible_of(vehicle_set, players_today), <<>>, u,
                vehicle_set, groups, <<>>)

select_vehicles_auto(vehicle_set, players_today, num_needed, u, groups) ==
    select_loop(num_needed, eligible_of(vehicle_set, players_today), <<>>, u,
                vehicle_set, groups, <<>>)

----------------------------------------------------------------------------
(* Input spaces *)

\* The code reads names only through equality and roster position, so every
\* roster is a renaming of a prefix of this one.
RosterOrder == <<"A", "B", "C">>

Rosters == {SubSeq(RosterOrder, 1, n) : n \in 0..Len(RosterOrder)}

AttendeeLists == ListsOver(Names)

UsageRecords == [used : 0..MaxCount, present : 0..MaxCount]

UsageMaps == UNION {[D -> UsageRecords] : D \in SUBSET Names}

\* a driver never counted, or present once and used once
FreshOrUsed == [Names -> {NewEntry, [used |-> 1, present |-> 1]}]

GroupEntries == [vehicle : Names, members : SUBSET Names]

\* One entry per key.  select_vehicles_auto reads vehicle_groups.values() alone,
\* so the entries are drawn in the roster order of their keys.
GroupMaps ==
    {g \in UNION {[1..n -> GroupEntries] : n \in 0..MaxGroups} :
        \A i, j \in 1..Len(g) :
            i < j => index(RosterOrder, g[i].vehicle) < index(RosterOrder, g[j].vehicle)}

\* what the last event was given and what it returned; n counts the events
NoCall ==
    [kind |-> "none", players_today |-> <<>>, num_needed |-> 0, manual |-> <<>>,
     before |-> EmptyUsage, selected |-> <<>>, eligible |-> <<>>, rounds |-> <<>>,
     swap |-> "None", recorded |-> FALSE, n |-> 0]

----------------------------------------------------------------------------
(* The selection core on its own: one call on drawn inputs.  The inputs are *)
(* every usage map with used <= present and no groups, every groups map     *)
(* over the full roster with each driver fresh or used once, and every      *)
(* groups map over a roster that the last name has left, with no usage.     *)

\* the roster after vehicles.remove of its last name
RosterAfterRemoval == SubSeq(RosterOrder, 1, Len(RosterOrder) - 1)

\* range(num_needed) is empty for every num_needed <= 0: 0 stands for them
NumNeededInputs == 0..MaxNeeded

InitSelect ==
    /\ players = <<>>
    /\ \/ /\ vehicles \in Rosters
          /\ vehicle_groups = <<>>
          /\ usage \in {u \in UsageMaps : \A d \in DOMAIN u : u[d].used <= u[d].present}
       \/ /\ vehicles = RosterOrder
          /\ vehicle_groups \in GroupMaps
          /\ usage \in FreshOrUsed
       \/ /\ vehicles = RosterAfterRemoval
          /\ vehicle_groups \in GroupMaps
          /\ usage = EmptyUsage
    /\ history = <<>>
    /\ app = "core"
    /\ last = NoCall

CallSelect ==
    /\ last.kind = "none"
    /\ \E players_today \in AttendeeLists, num_needed \in NumNeededInputs :
          \E r \in {select_vehicles_auto(vehicles, players_today, num_needed, usage,
                                         vehicle_groups)} :
             /\ usage' = r.usage
             /\ last' = [kind |-> "auto", players_today |-> players_today,
                         num_needed |-> num_needed, manual |-> <<>>, before |-> usage,
                         selected |-> r.selected, eligible |-> r.eligible,
                         rounds |-> r.rounds, swap |-> "None", recorded |-> FALSE,
                         n |-> 1]
    /\ UNCHANGED <<players, vehicles, vehicle_groups, history, app>>

NextSelect == CallSelect

SpecSelect == InitSelect /\ [][NextSelect]_vars

----------------------------------------------------------------------------
(* The match selection screens: vehicle_management ("vm") and              *)
(* fair_vehicle_selector_v1 ("v1"), on a loaded roster with an empty       *)
(* history.  Widget values and the outcome of a sheet call are inputs.     *)

AppPlayers == <<"A", "B">>

\* vehicle owners are players (Add Vehicle), a group is keyed by a vehicle owner
InitApp ==
    /\ app \in {"vm", "v1"}
    /\ players = AppPlayers
    /\ vehicles \in {SubSeq(AppPlayers, 1, n) : n \in 0..Len(AppPlayers)}
    /\ vehicle_groups \in
          {<<>>} \cup {<<[vehicle |-> v, members |-> m]>> :
                          v \in Range(vehicles), m \in SUBSET Range(players)}
    /\ history = <<>>
    /\ usage = EmptyUsage
    /\ last = NoCall

\* st.number_input(..., 1, len(vehicles) if vehicles else 1, 1)
NumNeededChoices == 1..(IF vehicles # <<>> THEN Len(vehicles) ELSE 1)

\* the branch on selection_mode: the selection and the usage it leaves
mode_result(mode, players_today, num_needed, manual_selected) ==
    IF mode = "Auto-Select"
    THEN select_vehicles_auto(vehicles, players_today, num_needed, usage, vehicle_groups)
    ELSE IF Len(manual_selected) # num_needed
    THEN [selected |-> <<>>, usage |-> usage, eligible |-> <<>>, rounds |-> <<>>]
    ELSE [selected |-> manual_selected,
          usage |-> update_usage(manual_selected, eligible_of(vehicles, players_today), usage),
          eligible |-> <<>>, rounds |-> <<>>]

EventKind(mode) == IF mode = "Auto-Select" THEN "auto" ELSE "manual"

\* vehicle_management: if st.button("Select Vehicles")
SelectVehicles ==
    /\ app = "vm"
    /\ last.n < MaxEvents
    /\ \E players_today \in ListsOver(Range(players)),
          num_needed \in NumNeededChoices,
          mode \in {"Auto-Select", "Manual-Select"},
          manual_selected \in ListsOver(Range(vehicles)) :
          /\ mode = "Auto-Select" => manual_selected = <<>>
          /\ \E r \in {mode_result(mode, players_today, num_needed, manual_selected)} :
                /\ usage' = r.usage
                /\ history' = IF r.selected # <<>>
                              THEN Append(history, [players_present |-> players_today,
                                                    selected_vehicles |-> r.selected])
                              ELSE history
                /\ last' = [kind |-> EventKind(mode), players_today |-> players_today,
                            num_needed |-> num_needed, manual |-> manual_selected,
                            before |-> usage, selected |-> r.selected,
                            eligible |-> r.eligible, rounds |-> r.rounds,
                            swap |-> "None", recorded |-> r.selected # <<>>,
                            n |-> last.n + 1]
    /\ UNCHANGED <<players, vehicles, vehicle_groups, app>>

\* selected[-1] = swap_choice
swap_last(selected, swap_choice) ==
    IF swap_choice # "None"
    THEN [selected EXCEPT ![Len(selected)] = swap_choice]
    ELSE selected

\* fair_vehicle_selector_v1: if st.button("Select Vehicles for Match")
SelectVehiclesForMatch ==
    /\ app = "v1"
    /\ last.n < MaxEvents
    /\ \E players_today \in ListsOver(Range(players)),
          num_needed \in NumNeededChoices,
          mode \in {"Auto-Select", "Manual-Select"},
          manual_selected \in ListsOver(Range(vehicles)),
          swap_choice \in {"None"} \cup Range(vehicles),
          ok \in BOOLEAN :
          /\ mode = "Auto-Select" => manual_selected = <<>>
          /\ eligible_of(vehicles, players_today) # <<>>
          /\ \E r \in {mode_result(mode, players_today, num_needed, manual_selected)} :
                IF r.selected = <<>>
                THEN /\ swap_choice = "None" /\ ~ok
                     /\ usage' = r.usage
                     /\ history' = history
                     /\ last' = [kind |-> EventKind(mode), players_today |-> players_today,
                                 num_needed |-> num_needed, manual |-> manual_selected,
                                 before |-> usage, selected |-> <<>>,
                                 eligible |-> r.eligible, rounds |-> r.rounds,
                                 swap |-> "None", recorded |-> FALSE,
                                 n |-> last.n + 1]
                ELSE /\ swap_choice \notin Range(r.selected)
                     /\ \E selected \in {swap_last(r.selected, swap_choice)} :
                           /\ usage' = IF ok
                                       THEN update_usage(selected,
                                                eligible_of(vehicles, players_today), r.usage)
                                       ELSE r.usage
                           /\ history' = IF ok
                                         THEN Append(history,
                                                 [players_present |-> players_today,
                                                  selected_vehicles |-> selected])
                                         ELSE history
                           /\ last' = [kind |-> EventKind(mode),
                                       players_today |-> players_today,
                                       num_needed |-> num_needed,
                                       manual |-> manual_selected, before |-> usage,
                                       selected |-> selected, eligible |-> r.eligible,
                                       rounds |-> r.rounds, swap |-> swap_choice,
                                       recorded |-> ok, n |-> last.n + 1]
    /\ UNCHANGED <<players, vehicles, vehicle_groups, app>>

\* history.pop()
pop(h) == SubSeq(h, 1, Len(h) - 1)

\* what an undo leaves in last: when it removes the record that the last event
\* stored, the fields of that event, before being the usage it started from
UndoRecord(popped) ==
    IF popped /\ last.kind \in {"auto", "manual"} /\ last.recorded
    THEN [last EXCEPT !.kind = "undo_select", !.recorded = FALSE, !.n = @ + 1]
    ELSE [NoCall EXCEPT !.kind = "undo", !.before = usage, !.n = last.n + 1]

\* if st.button("Undo Last Entry"): vehicle_management pops the in-memory history;
\* v1 pops it when safe_delete_last_row removed a sheet row (ok)
UndoLastEntry ==
    /\ app \in {"vm", "v1"}
    /\ last.n < MaxEvents
    /\ \E ok \in BOOLEAN :
          /\ app = "vm" => ok
          /\ \E popped \in {ok /\ history # <<>>} :
                /\ history' = IF popped THEN pop(history) ELSE history
                /\ last' = UndoRecord(popped)
    /\ UNCHANGED <<players, vehicles, vehicle_groups, usage, app>>

Next == SelectVehicles \/ SelectVehiclesForMatch \/ UndoLastEntry

Spec == InitApp /\ [][Next]_vars

----------------------------------------------------------------------------
(* Recorded Auto-Select events alone, from an empty history and an empty    *)
(* usage map, and the usage that a later session computes from the stored   *)
(* history when it loads.                                                   *)

\* ", ".join(names) as written to the sheet, read back by split: team_rrr_mgmt
\* splits on ", " and keeps the single empty string of an empty cell, v1
\* splits on ",", strips and skips empty strings
stored_names(names) ==
    IF names = <<>> /\ app # "v1" THEN <<"">> ELSE names

\* the "Compute usage" loop over the history records
RECURSIVE usage_from_history(_)
usage_from_history(records) ==
    IF records = <<>> THEN EmptyUsage
    ELSE LET rec == records[Len(records)]
             u == usage_from_history(SubSeq(records, 1, Len(records) - 1))
         IN credit_used(stored_names(rec.selected_vehicles),
                        credit_present(stored_names(rec.players_present), u))

\* the selection handler with selection_mode "Auto-Select", a driver attending
\* and the record stored
AutoSelectRecorded ==
    /\ app \in {"vm", "v1"}
    /\ last.n < MaxEvents
    /\ \E players_today \in ListsOver(Range(players)), num_needed \in NumNeededChoices :
          /\ eligible_of(vehicles, players_today) # <<>>
          /\ \E r \in {mode_result("Auto-Select", players_today, num_needed, <<>>)} :
                /\ usage' = IF app = "v1"
                            THEN update_usage(r.selected,
                                              eligible_of(vehicles, players_today), r.usage)
                            ELSE r.usage
                /\ history' = Append(history, [players_present |-> players_today,
                                               selected_vehicles |-> r.selected])
                /\ last' = [kind |-> "auto", players_today |-> players_today,
                            num_needed |-> num_needed, manual |-> <<>>,
                            before |-> usage, selected |-> r.selected,
                            eligible |-> r.eligible, rounds |-> r.rounds,
                            swap |-> "None", recorded |-> TRUE, n |-> last.n + 1]
    /\ UNCHANGED <<players, vehicles, vehicle_groups, app>>

NextMatches == AutoSelectRecorded

SpecMatches == InitApp /\ [][NextMatches]_vars

----------------------------------------------------------------------------
(* Repeated calls of select_vehicles_auto with one num_needed, every roster *)
(* driver attending every time, no groups, from a usage with no credit.     *)

BalanceRoster == <<"A", "B", "C", "D", "E">>

InitBalance ==
    /\ app = "vm"
    /\ vehicles \in {SubSeq(BalanceRoster, 1, n) : n \in 1..Len(BalanceRoster)}
    /\ players = vehicles
    /\ vehicle_groups = <<>>
    /\ history = <<>>
    /\ usage \in {EmptyUsage, [d \in Range(vehicles) |-> NewEntry]}
    /\ \E num_needed \in 1..Len(vehicles) :
          last = [kind |-> "none", num_needed |-> num_needed, selected |-> <<>>, n |-> 0]

\* one call; the attendee list names every roster driver, in any order
AutoSelectAllAttend ==
    /\ last.n < MaxMatches
    /\ \E players_today \in {s \in ListsOver(Range(vehicles)) : Len(s) = Len(vehicles)} :
          \E r \in {select_vehicles_auto(vehicles, players_today, last.num_needed,
                                         usage, vehicle_groups)} :
              /\ usage' = r.usage
              /\ last' = [kind |-> "auto", num_needed |-> last.num_needed,
                          selected |-> r.selected, n |-> last.n + 1]
    /\ UNCHANGED <<players, vehicles, vehicle_groups, history, app>>

NextBalance == AutoSelectAllAttend

SpecBalance == InitBalance /\ [][NextBalance]_vars

----------------------------------------------------------------------------
(* The roster screens: Add/Remove Player and Add/Remove Vehicle of         *)
(* team_rrr_mgmt with vehicle_management ("vm"), of fair_vehicle_selector_v1*)
(* ("v1") and Add/Remove Vehicle of fair_vehicle_selector_app ("fvs_app"), *)
(* which keeps no players list.  The typed name and the outcome of a sheet *)
(* call are inputs.  Here last is the last roster event: its kind, the name *)
(* it was given, the vehicle roster it started from, and the names that     *)
(* have left the vehicle roster so far.                                     *)

MaxRosterOps == 3

\* what a text_input can hold
NameInputs == Names \cup {""}

NoRosterEvent ==
    [kind |-> "none", name |-> "", vehicles |-> <<>>, removed |-> {}, n |-> 0]

InitRoster ==
    /\ app \in {"vm", "v1", "fvs_app"}
    /\ \/ /\ app \in {"vm", "v1"}
          /\ players \in Rosters
          /\ vehicles \in {SubSeq(players, 1, n) : n \in 0..Len(players)}
       \/ /\ app = "fvs_app"
          /\ players = <<>>
          /\ vehicles \in Rosters
    /\ vehicle_groups = <<>>
    /\ history = <<>>
    /\ usage = EmptyUsage
    /\ last = NoRosterEvent

RosterEvent(kind, name) ==
    [kind |-> kind, name |-> name, vehicles |-> vehicles,
     removed |-> last.removed \cup (Range(vehicles) \ Range(vehicles')),
     n |-> last.n + 1]

\* the sheet call of v1 (safe_append_row, safe_delete_row_by_match) may fail;
\* the other two screens change the list in memory
SheetOutcomes == IF app = "v1" THEN BOOLEAN ELSE {TRUE}

\* the duplicate check left out
can_add_vehicle_known(new_vehicle) == new_vehicle \in Range(players)

\* the branch of Add Vehicle that appends
can_add_vehicle(new_vehicle) ==
    IF app = "fvs_app"
    THEN new_vehicle # "" /\ new_vehicle \notin Range(vehicles)
    ELSE IF app = "v1"
    THEN new_vehicle # "" /\ new_vehicle \in Range(players)
                          /\ new_vehicle \notin Range(vehicles)
    ELSE new_vehicle \in Range(players) /\ new_vehicle \notin Range(vehicles)

\* the branch of Add Player that appends
can_add_player(new_player) == new_player # "" /\ new_player \notin Range(players)

\* if st.button("Add Player")
AddPlayer ==
    /\ app \in {"vm", "v1"}
    /\ last.n < MaxRosterOps
    /\ \E new_player \in NameInputs, ok \in SheetOutcomes :
          /\ players' = IF can_add_player(new_player) /\ ok
                         THEN Append(players, new_player)
                         ELSE players
          /\ vehicles' = vehicles
          /\ last' = RosterEvent("add_player", new_player)
    /\ UNCHANGED <<vehicle_groups, history, usage, app>>

\* Remove Player: team_rrr_mgmt removes the name from players; v1 removes it
\* from players and, when it is a vehicle owner, from vehicles
RemovePlayer ==
    /\ app \in {"vm", "v1"}
    /\ last.n < MaxRosterOps
    /\ \E rem \in Range(players), ok \in SheetOutcomes :
          /\ players' = IF ok THEN remove(players, rem) ELSE players
          /\ vehicles' = IF ok /\ app = "v1" /\ rem \in Range(vehicles)
                          THEN remove(vehicles, rem)
                          ELSE vehicles
          /\ last' = RosterEvent("remove_player", rem)
    /\ UNCHANGED <<vehicle_groups, history, usage, app>>

\* if st.button("Add Vehicle")
AddVehicle ==
    /\ last.n < MaxRosterOps
    /\ \E new_vehicle \in NameInputs, ok \in SheetOutcomes :
          /\ vehicles' = IF can_add_vehicle(new_vehicle) /\ ok
                          THEN Append(vehicles, new_vehicle)
                          ELSE vehicles
          /\ last' = RosterEvent("add_vehicle", new_vehicle)
    /\ UNCHANGED <<players, vehicle_groups, history, usage, app>>

\* Remove Vehicle, the name chosen among the vehicle owners
RemoveVehicle ==
    /\ last.n < MaxRosterOps
    /\ \E remove_vehicle_name \in Range(vehicles), ok \in SheetOutcomes :
          /\ vehicles' = IF ok THEN remove(vehicles, remove_vehicle_name) ELSE vehicles
          /\ last' = RosterEvent("remove_vehicle", remove_vehicle_name)
    /\ UNCHANGED <<players, vehicle_groups, history, usage, app>>

\* Reset All: vehicle_management assigns empty collections to its own
\* parameters, which ends with the run, the lists held in
\* st.session_state.gsheet_data being the ones the next run unpacks; v1 stores
\* empty collections in st.session_state
ResetAll ==
    /\ app \in {"vm", "v1"}
    /\ last.n < MaxRosterOps
    /\ IF app = "v1"
       THEN /\ players' = <<>>
            /\ vehicles' = <<>>
            /\ vehicle_groups' = <<>>
            /\ history' = <<>>
            /\ usage' = EmptyUsage
       ELSE UNCHANGED <<players, vehicles, vehicle_groups, history, usage>>
    /\ last' = [RosterEvent("reset", "") EXCEPT !.removed = IF app = "v1" THEN {} ELSE @]
    /\ app' = app

NextRoster == AddPlayer \/ RemovePlayer \/ AddVehicle \/ RemoveVehicle \/ ResetAll

SpecRoster == InitRoster /\ [][NextRoster]_vars

----------------------------------------------------------------------------
(* Properties of one call of select_vehicles_auto *)

UsedLePresent(u) == \A d \in DOMAIN u : u[d].used <= u[d].present

SameUsage(u, v) == DOMAIN u = DOMAIN v /\ \A d \in DOMAIN u : u[d] = v[d]

Min(a, b) == IF a < b THEN a ELSE b

Credit(d, S) == IF d \in S THEN 1 ELSE 0

AttendingDrivers == Range(last.players_today) \cap Range(vehicles)

\* d left eligible in round j without being the pick: a group of the pick lists it
ExcludedIn(j, d) ==
    LET rd == last.rounds[j]
    IN /\ d # rd.pick
       /\ d \in Range(rd.eligible) \ Range(rd.remaining)
       /\ \E g \in 1..Len(vehicle_groups) : {d, rd.pick} \subseteq vehicle_groups[g].members

\* C1: from a usage map with used <= present for every driver, a call of
\* select_vehicles_auto on a duplicate-free attendee list leaves used <= present
\* for every driver, after each round of the loop and at return.
C1_UsedLePresentAfterAuto ==
    (last.kind = "auto" /\ UsedLePresent(last.before)) =>
        /\ UsedLePresent(usage)
        /\ \A j \in 1..Len(last.rounds) : UsedLePresent(last.rounds[j].usage)

\* a two-round call after which a driver stands at used = present > 0
C1_Witness ==
    /\ last.kind = "auto"
    /\ UsedLePresent(last.before)
    /\ Len(last.rounds) >= 2
    /\ \E d \in DOMAIN usage :
          /\ usage[d].used = usage[d].present
          /\ usage[d].used > usage_get(last.before, d).used

\* C2: group exclusivity for every groups map: when a selected driver is a
\* member of a group, no other member of that group is selected in the call.
C2_GroupExclusive ==
    last.kind = "auto" =>
        \A i, j \in 1..Len(last.selected), g \in 1..Len(vehicle_groups) :
            (i # j /\ last.selected[i] \in vehicle_groups[g].members)
                => last.selected[j] \notin vehicle_groups[g].members

\* C6 as claimed: of two eligible drivers with identical usage ratio when the
\* call starts, the later in the roster is picked only in a round in which the
\* earlier is no longer eligible.
C6_TieBreakAtCall ==
    last.kind = "auto" =>
        \A a, b \in AttendingDrivers :
            (/\ RatioEq(usage_ratio(last.before, a), usage_ratio(last.before, b))
             /\ index(vehicles, a) < index(vehicles, b))
                => \A j \in 1..Len(last.rounds) :
                      last.rounds[j].pick = b => a \notin Range(last.rounds[j].eligible)

\* C6 as amended: of two drivers eligible at the start of a round with identical
\* usage ratio in the usage of that round, the later in the roster is not the
\* pick of that round.
C6_TieBreakPerRound ==
    last.kind = "auto" =>
        \A j \in 1..Len(last.rounds) :
            \A a, b \in Range(last.rounds[j].eligible) :
                (/\ RatioEq(usage_ratio(last.rounds[j].before, a),
                            usage_ratio(last.rounds[j].before, b))
                 /\ index(vehicles, a) < index(vehicles, b))
                    => last.rounds[j].pick # b

\* a second round that picks the earlier of two drivers tied at a non-zero ratio,
\* the attendee list naming the later one first
C6_Witness ==
    /\ last.kind = "auto"
    /\ Len(last.rounds) >= 2
    /\ \E a, b \in Range(last.rounds[2].eligible) :
          /\ RatioEq(usage_ratio(last.rounds[2].before, a),
                     usage_ratio(last.rounds[2].before, b))
          /\ usage_ratio(last.rounds[2].before, a)[1] > 0
          /\ index(vehicles, a) < index(vehicles, b)
          /\ index(last.players_today, b) < index(last.players_today, a)
          /\ last.rounds[2].pick = a

\* C7: when no attendee is a roster driver the call returns an empty selection
\* and leaves the usage map as it was: no key added, no counter changed.
C7_NoEligibleNoChange ==
    (last.kind = "auto" /\ AttendingDrivers = {}) =>
        /\ last.selected = <<>>
        /\ SameUsage(usage, last.before)

\* attendees without a usage entry, none of them a driver of a non-empty roster
C7_Witness ==
    /\ last.kind = "auto"
    /\ AttendingDrivers = {}
    /\ vehicles # <<>>
    /\ Range(last.players_today) \ DOMAIN last.before # {}
    /\ last.selected = <<>>

\* C8: the call returns at most num_needed drivers; it returns fewer only when
\* no eligible driver is left, every attending driver having been selected or
\* removed by group exclusion; without groups it returns
\* min(num_needed, number of attending drivers) drivers.
C8_AtMostNeeded ==
    last.kind = "auto" =>
        /\ Len(last.selected) <= last.num_needed
        /\ Len(last.selected) < last.num_needed =>
              /\ last.eligible = <<>>
              /\ \A d \in AttendingDrivers :
                    \/ d \in Range(last.selected)
                    \/ \E j \in 1..Len(last.rounds) : ExcludedIn(j, d)
        /\ vehicle_groups = <<>> =>
              Len(last.selected) = Min(last.num_needed, Cardinality(AttendingDrivers))

\* fewer drivers than needed, one attending driver lost to group exclusion
C8_Witness ==
    /\ last.kind = "auto"
    /\ 0 < Len(last.selected)
    /\ Len(last.selected) < last.num_needed
    /\ \E d \in AttendingDrivers :
          d \notin Range(last.selected) /\ \E j \in 1..Len(last.rounds) : ExcludedIn(j, d)

\* C10: when the pick of a round is the key of a groups entry, no member listed
\* for that entry stays eligible after the round.
C10_NamedDriverConsumesMembers ==
    last.kind = "auto" =>
        \A j \in 1..Len(last.rounds), g \in 1..Len(vehicle_groups) :
            vehicle_groups[g].vehicle = last.rounds[j].pick
                => vehicle_groups[g].members \cap Range(last.rounds[j].remaining) = {}

\* C20: in every round the pick is the eligible driver with the smallest usage
\* ratio in the usage as the earlier rounds of the call left it, and among the
\* eligible drivers with that ratio the one with the smallest roster index.
C20_PickIsLeastPerRound ==
    last.kind = "auto" =>
        \A j \in 1..Len(last.rounds) :
            /\ last.rounds[j].before =
                  IF j = 1 THEN last.before ELSE last.rounds[j - 1].usage
            /\ last.rounds[j].pick \in Range(last.rounds[j].eligible)
            /\ \A d \in Range(last.rounds[j].eligible) \ {last.rounds[j].pick} :
                  \/ RatioLess(usage_ratio(last.rounds[j].before, last.rounds[j].pick),
                               usage_ratio(last.rounds[j].before, d))
                  \/ /\ RatioEq(usage_ratio(last.rounds[j].before, last.rounds[j].pick),
                                usage_ratio(last.rounds[j].before, d))
                     /\ index(vehicles, last.rounds[j].pick) < index(vehicles, d)

\* a second round whose pick has a positive ratio, smaller than that of an
\* eligible driver earlier in the roster and earlier in the attendee list
C20_Witness ==
    /\ last.kind = "auto"
    /\ Len(last.rounds) >= 2
    /\ last.rounds[2].before # last.before
    /\ usage_ratio(last.rounds[2].before, last.rounds[2].pick)[1] > 0
    /\ \E d \in Range(last.rounds[2].eligible) :
          /\ index(vehicles, d) < index(vehicles, last.rounds[2].pick)
          /\ index(last.players_today, d) < index(last.players_today, last.rounds[2].pick)
          /\ RatioLess(usage_ratio(last.rounds[2].before, last.rounds[2].pick),
                       usage_ratio(last.rounds[2].before, d))

\* the rounds of the last call at whose start d was eligible
RoundsEligible(d) ==
    Cardinality({j \in 1..Len(last.rounds) : d \in Range(last.rounds[j].eligible)})

PresentGain(d) == usage_get(usage, d).present - usage_get(last.before, d).present

UsedGain(d) == usage_get(usage, d).used - usage_get(last.before, d).used

\* C21: one call raises each driver's present by the number of rounds at whose
\* start the driver was eligible and used by 1 for the selected drivers and 0
\* for the others; without groups the j-th selected driver gains present j and
\* every eligible driver not selected gains present k, the number selected.
C21_RepeatedCrediting ==
    last.kind = "auto" =>
        /\ \A d \in Names :
              /\ PresentGain(d) = RoundsEligible(d)
              /\ UsedGain(d) = Credit(d, Range(last.selected))
        /\ vehicle_groups = <<>> =>
              /\ \A j \in 1..Len(last.selected) : PresentGain(last.selected[j]) = j
              /\ \A d \in AttendingDrivers \ Range(last.selected) :
                    PresentGain(d) = Len(last.selected)

\* two drivers selected without groups, a third eligible driver gaining present 2
C21_Witness ==
    /\ last.kind = "auto"
    /\ vehicle_groups = <<>>
    /\ Len(last.selected) = 2
    /\ PresentGain(last.selected[1]) = 1
    /\ PresentGain(last.selected[2]) = 2
    /\ \E d \in AttendingDrivers \ Range(last.selected) :
          PresentGain(d) = 2 /\ UsedGain(d) = 0

\* C23: the loop runs at most num_needed rounds, every round starts with a
\* non-empty eligible list and leaves a strictly shorter one without the pick,
\* and fewer than num_needed rounds are run only when eligible is empty.
C23_LoopTerminates ==
    last.kind = "auto" =>
        /\ Len(last.rounds) <= last.num_needed
        /\ Len(last.rounds) = Len(last.selected)
        /\ \A j \in 1..Len(last.rounds) :
              /\ last.rounds[j].eligible # <<>>
              /\ last.rounds[j].pick \notin Range(last.rounds[j].remaining)
              /\ Range(last.rounds[j].remaining) \subseteq Range(last.rounds[j].eligible)
              /\ Len(last.rounds[j].remaining) < Len(last.rounds[j].eligible)
              /\ j > 1 => last.rounds[j].eligible = last.rounds[j - 1].remaining
        /\ Len(last.rounds) < last.num_needed => last.eligible = <<>>
        /\ last.rounds # <<>> => last.eligible = last.rounds[Len(last.rounds)].remaining

\* a call stopped after one round of three asked for, the round having dropped
\* the pick and the two other eligible drivers of its group
C23_Witness ==
    /\ last.kind = "auto"
    /\ last.num_needed = 3
    /\ Len(last.rounds) = 1
    /\ Len(last.rounds[1].eligible) = 3
    /\ last.rounds[1].remaining = <<>>

\* C25: every selected driver is an attendee and a roster driver, no driver is
\* selected twice, and after each round the pick is no longer eligible.
C25_SelectedAreAttendingDrivers ==
    last.kind = "auto" =>
        /\ Range(last.selected) \subseteq Range(last.players_today) \cap Range(vehicles)
        /\ NoDup(last.selected)
        /\ \A j \in 1..Len(last.rounds) :
              last.rounds[j].pick \notin Range(last.rounds[j].remaining)

\* two drivers selected, the first a member of a group, with an attendee who is
\* not a roster driver and a group naming that attendee
C25_Witness ==
    /\ last.kind = "auto"
    /\ Len(last.selected) = 2
    /\ first_group(vehicle_groups, last.selected[1]) > 0
    /\ Range(last.players_today) \ Range(vehicles) # {}
    /\ \E g \in 1..Len(vehicle_groups) :
          vehicle_groups[g].members \cap (Range(last.players_today) \ Range(vehicles)) # {}

\* [d in driverRoster if d in attendeesToday]: the attendees in roster order
RosterOrdered(vehicle_set, players_today) ==
    SelectSeq(vehicle_set, LAMBDA d : d \in Range(players_today))

\* C26: the selection and the usage map that a call leaves are those of the
\* call on the attending drivers listed in roster order, whatever the order of
\* the attendee list: all permutations of an attendee list give one result.
C26_AttendeeOrderIrrelevant ==
    last.kind = "auto" =>
        \E ref \in {select_vehicles_auto(vehicles,
                                          RosterOrdered(vehicles, last.players_today),
                                          last.num_needed, last.before, vehicle_groups)} :
           /\ last.selected = ref.selected
           /\ SameUsage(usage, ref.usage)

\* two drivers selected from an attendee list that names three tied drivers in
\* the reverse of the roster order
C26_Witness ==
    /\ last.kind = "auto"
    /\ Len(last.selected) = 2
    /\ Len(vehicles) = 3
    /\ last.players_today = [k \in 1..3 |-> vehicles[4 - k]]
    /\ \A d \in Range(vehicles) : RatioEq(usage_ratio(last.before, d), <<0, 1>>)
    /\ last.selected[1] = vehicles[1]

\* C27: a call changes the counters of attending roster drivers only: every
\* other driver keeps the same entry, or stays without one, and the roster and
\* the groups map are as before.
C27_OnlyEligibleChanged ==
    [][last'.kind = "auto" =>
          /\ \A d \in Names \ (Range(last'.players_today) \cap Range(vehicles)) :
                /\ d \in DOMAIN usage' <=> d \in DOMAIN usage
                /\ usage_get(usage', d) = usage_get(usage, d)
          /\ last'.before = usage
          /\ vehicles' = vehicles
          /\ vehicle_groups' = vehicle_groups]_vars

\* a call that selects a driver while a roster driver who stays away and an
\* attendee who is no driver both hold counters
C27_Witness ==
    /\ last.kind = "auto"
    /\ last.selected # <<>>
    /\ \E d \in Range(vehicles) \ Range(last.players_today) :
          d \in DOMAIN usage /\ usage[d].present > 0
    /\ \E d \in Range(last.players_today) \ Range(vehicles) :
          d \in DOMAIN usage /\ usage[d].present > 0

\* the drivers that the groups map names, as a key or as a member
GroupNames ==
    UNION {{vehicle_groups[g].vehicle} \cup vehicle_groups[g].members :
              g \in 1..Len(vehicle_groups)}

\* select_vehicles_auto has no raise statement and calls nothing that raises on
\* these inputs: a call always returns, and CallSelect records it as "auto".
Rejected == last.kind = "error"

\* C11: a call with num_needed <= 0 fails with a validation error: no
\* selection is returned and usage is left unchanged.
C11_NonPositiveRejected ==
    (last.kind # "none" /\ last.num_needed <= 0) =>
        /\ Rejected
        /\ last.selected = <<>>
        /\ SameUsage(usage, last.before)

\* C12: a call whose groups map names, as a key or as a member, a driver that
\* is not in the roster fails with a validation error and leaves usage unchanged.
C12_UnknownGroupDriverRejected ==
    (/\ last.kind # "none"
     /\ last.num_needed >= 1
     /\ ~(GroupNames \subseteq Range(vehicles))) =>
        /\ Rejected
        /\ last.selected = <<>>
        /\ SameUsage(usage, last.before)

----------------------------------------------------------------------------
(* Properties of the selection screens *)

\* C3: undoing the history record that a selection stored restores every
\* driver's used and present counters to their values before that selection.
C3_UndoRestoresUsage ==
    last.kind = "undo_select" =>
        \A d \in Names : usage_get(usage, d) = usage_get(last.before, d)

\* C5: after any sequence of Auto-Select and Manual-Select events, with or
\* without an emergency swap, every driver has used <= present.
C5_UsedLePresentOnScreens == UsedLePresent(usage)

\* C13: across any sequence of Auto-Select and Manual-Select events no driver's
\* used counter and no driver's present counter decreases, and no usage entry
\* disappears.
C13_UsageMonotone ==
    [][last'.kind \in {"auto", "manual"} =>
          /\ DOMAIN usage \subseteq DOMAIN usage'
          /\ \A d \in Names :
                /\ usage_get(usage', d).used >= usage_get(usage, d).used
                /\ usage_get(usage', d).present >= usage_get(usage, d).present]_vars

\* a second selection event that raises a used counter the first one had raised
C13_Witness ==
    /\ last.kind \in {"auto", "manual"}
    /\ last.n = 2
    /\ \E d \in DOMAIN last.before :
          /\ last.before[d].used > 0
          /\ usage_get(usage, d).used > last.before[d].used
          /\ usage_get(usage, d).present > last.before[d].present

\* C14: a driver whose present counter is 0, or who has no usage entry, has
\* usage ratio 0 whatever the used counter, and in every round in which such a
\* driver is eligible the pick has usage ratio 0.
C14_NeverPresentRatioZero ==
    last.kind = "auto" =>
        \A j \in 1..Len(last.rounds) :
            \A d \in Range(last.rounds[j].eligible) :
                usage_get(last.rounds[j].before, d).present = 0 =>
                    /\ RatioEq(usage_ratio(last.rounds[j].before, d), <<0, 1>>)
                    /\ \/ usage_get(last.rounds[j].before, last.rounds[j].pick).present = 0
                       \/ usage_get(last.rounds[j].before, last.rounds[j].pick).used = 0

\* a round that picks a driver with used > 0 and present = 0 ahead of an
\* eligible driver that is earlier in the roster and has a positive ratio
C14_Witness ==
    /\ last.kind = "auto"
    /\ \E j \in 1..Len(last.rounds) :
          \E d, e \in Range(last.rounds[j].eligible) :
             /\ usage_get(last.rounds[j].before, d).present = 0
             /\ usage_get(last.rounds[j].before, d).used > 0
             /\ usage_get(last.rounds[j].before, e).present > 0
             /\ usage_get(last.rounds[j].before, e).used > 0
             /\ index(vehicles, e) < index(vehicles, d)
             /\ last.rounds[j].pick = d

Max0(n) == IF n < 0 THEN 0 ELSE n

\* C15: an undo that removes the last history record lowers used by 1, not
\* below 0, for each driver in the record's selected_vehicles and present by 1,
\* not below 0, for each driver in its players_present, and changes no other
\* counter.
C15_UndoDecrements ==
    [][(last'.kind \in {"undo", "undo_select"} /\ history # <<>> /\ history' = pop(history)) =>
          \A d \in Names :
             /\ usage_get(usage', d).used =
                   Max0(usage_get(usage, d).used
                        - Credit(d, Range(history[Len(history)].selected_vehicles)))
             /\ usage_get(usage', d).present =
                   Max0(usage_get(usage, d).present
                        - Credit(d, Range(history[Len(history)].players_present)))]_vars

\* C16: the history is append-only: every step that is not a reset leaves the
\* history an extension of its earlier value.
C16_HistoryAppendOnly ==
    [][/\ Len(history') >= Len(history)
       /\ SubSeq(history', 1, Len(history)) = history]_vars

\* C9: a Manual-Select event with exactly num_needed hand-picked drivers (no
\* emergency swap) adds 1 to used for each hand-picked driver, 1 to present for
\* each attending driver, and changes no other counter.
C9_ManualCreditsOnce ==
    (/\ last.kind = "manual"
     /\ Len(last.manual) = last.num_needed
     /\ last.swap = "None") =>
        \A d \in Names :
            /\ usage_get(usage, d).used =
                  usage_get(last.before, d).used + Credit(d, Range(last.manual))
            /\ usage_get(usage, d).present =
                  usage_get(last.before, d).present + Credit(d, AttendingDrivers)

\* C22: in fair_vehicle_selector_v1 a recorded Auto-Select event without an
\* emergency swap raises used by exactly 1 for each recorded driver and present
\* by what the rounds of select_vehicles_auto credited, no more.
C22_RecordedAutoCreditsOnce ==
    (app = "v1" /\ last.kind = "auto" /\ last.recorded /\ last.swap = "None") =>
        /\ \A d \in Range(last.selected) : UsedGain(d) = 1
        /\ \A d \in Names : PresentGain(d) = RoundsEligible(d)

\* C29: in fair_vehicle_selector_v1 a selection event whose history row is not
\* stored leaves the usage counters and the history as they were.
C29_FailedStoreNoEffect ==
    [][(app = "v1" /\ last'.kind \in {"auto", "manual"} /\ ~last'.recorded) =>
          /\ usage' = usage
          /\ history' = history]_vars

\* C28: after any sequence of recorded Auto-Select events from an empty
\* history and an empty usage map, the usage computed from the history on load
\* gives every roster driver the used and present counters held in memory.
C28_LoadedUsageEqualsMemory ==
    \A d \in Range(vehicles) :
        usage_get(usage_from_history(history), d) = usage_get(usage, d)

----------------------------------------------------------------------------
(* Properties of repeated calls with every driver attending *)

\* the used counters of any two roster drivers differ by at most 1
UsedBalanced ==
    \A d, e \in Range(vehicles) :
        usage_get(usage, d).used - usage_get(usage, e).used <= 1

\* with num_needed = 1 the call number t selects the roster driver at index
\* (t-1) mod roster size (from 0)
RoundRobin ==
    (last.num_needed = 1 /\ last.n >= 1) =>
        last.selected = <<vehicles[((last.n - 1) % Len(vehicles)) + 1]>>

\* C30 as stated: for every num_needed from 1 to the roster size, after every
\* event the used counters of any two roster drivers differ by at most 1, and
\* with num_needed = 1 the drivers are selected in round-robin roster order.
C30_BalanceOverTime == UsedBalanced /\ RoundRobin

\* C30, amended: the used counters stay within 1 of one another when
\* num_needed is 1 or the roster size, or the roster has at most 4 drivers
\* (a roster of 5 with num_needed 4 leaves them 2 apart at the fifth event);
\* with num_needed = 1 the drivers are selected in round-robin roster order.
C30_BalanceOneAllOrSmallRoster ==
    /\ (last.num_needed = 1 \/ last.num_needed = Len(vehicles) \/ Len(vehicles) <= 4)
           => UsedBalanced
    /\ RoundRobin

\* the fourth event of a roster of three with num_needed = 1 wraps around to
\* the first roster driver, who is then used twice, the others once
C30_Witness ==
    /\ last.kind = "auto" /\ last.num_needed = 1 /\ last.n = 4
    /\ vehicles = <<"A", "B", "C">>
    /\ last.selected = <<"A">>
    /\ usage["A"].used = 2 /\ usage["B"].used = 1 /\ usage["C"].used = 1

----------------------------------------------------------------------------
(* Properties of the roster screens *)

\* C17: removal from the vehicle roster is terminal: a name that has left the
\* roster is never a roster member again.
C17_RemovalTerminal == Range(vehicles) \cap last.removed = {}

\* C24: after a Reset All in vehicle_management the players, the roster, the
\* groups, the history and the usage that the next run works with are empty.
C24_ResetEmptiesState ==
    (app = "vm" /\ last.kind = "reset") =>
        /\ players = <<>>
        /\ vehicles = <<>>
        /\ vehicle_groups = <<>>
        /\ history = <<>>
        /\ usage = EmptyUsage

\* C18: on the screens that keep a players list, every vehicle owner is a
\* member of the players list.
C18_DriversArePlayers ==
    app \in {"vm", "v1"} => Range(vehicles) \subseteq Range(players)

\* C19: the vehicle roster never holds a name twice, and an Add Vehicle of a
\* name already in the roster leaves the roster as it was.
C19_RosterNoDuplicates ==
    /\ NoDup(vehicles)
    /\ (last.kind = "add_vehicle" /\ last.name \in Range(last.vehicles)) =>
           vehicles = last.vehicles

\* an Add Vehicle of the first of two vehicle owners, the roster left as it was
C19_Witness ==
    /\ last.kind = "add_vehicle"
    /\ Len(last.vehicles) >= 2
    /\ last.name = last.vehicles[1]
    /\ vehicles = last.vehicles
    /\ last.n >= 2

====
